---- MODULE Spec2Model ----
(***************************************************************************)
(* Model of larq/activations.py: the element-wise activation functions     *)
(* hard_tanh, hard_sigmoid and leaky_tanh, and the layer wrappers HardTanh *)
(* and HardSigmoid.                                                        *)
(*                                                                         *)
(* Numbers are exact fixed-point values counted in tenths: 0.5 is 5, 1.0   *)
(* is 10, 0.2 is 2.  Inputs are multiples of 0.5 and slopes multiples of   *)
(* 0.2, so that every product the code forms is an exact number of tenths. *)
(* A tensor is a record [shape, data]: shape is the sequence of dimensions *)
(* and data the elements in row-major order.                               *)
(***************************************************************************)
EXTENDS Integers, Sequences, FiniteSets, TLC

\* ------------------------------------------------------------ literals
\* The literal 0.5 of hard_sigmoid, in tenths.
Half == 5
\* The literal 1 / 1.0 (default upper_b, clip bound of hard_sigmoid and leaky_tanh).
One == Half + Half
\* The default slope 0.2 of leaky_tanh, in tenths.
DefaultAlpha == 2

\* -------------------------------------------------------------- bounds
\* Input elements range over the multiples of 0.5 in [-MaxX/2, MaxX/2].
MaxX == 3
\* lower_b / upper_b range over the multiples of 0.5 in [-MaxB/2, MaxB/2].
MaxB == 2
\* alpha ranges over the multiples of 0.2 in [-0.2*MaxA, 0.2*MaxA].
MaxA == 2
\* A tensor holds at most MaxLen elements.
MaxLen == 2

XVals == {k * Half : k \in -MaxX..MaxX}
BVals == {k * Half : k \in -MaxB..MaxB}
AVals == {k * DefaultAlpha : k \in -MaxA..MaxA}

\* ------------------------------------------------------------- tensors
RECURSIVE Prod(_)
Prod(s) == IF s = <<>> THEN 1 ELSE Head(s) * Prod(Tail(s))

\* Scalars (rank 0), vectors and matrices with at most MaxLen elements.
Shapes ==
    {<<>>} \cup {<<n>> : n \in 0..MaxLen}
           \cup {<<m, n>> : m \in 0..MaxLen, n \in 0..MaxLen}

Tensors ==
    UNION {[shape : {s}, data : [1..Prod(s) -> XVals]] :
              s \in {sh \in Shapes : Prod(sh) <= MaxLen}}

\* ----------------------------------------------- tensor primitives (tf)
\* Every primitive is element-wise: a scalar operand is broadcast over t and
\* the result has the shape of t.

\* tf.math.minimum(t, s) with a scalar s.
minimum(t, s) ==
    [shape |-> t.shape,
     data |-> [i \in DOMAIN t.data |-> IF t.data[i] < s THEN t.data[i] ELSE s]]

\* tf.math.maximum(t, s) with a scalar s.
maximum(t, s) ==
    [shape |-> t.shape,
     data |-> [i \in DOMAIN t.data |-> IF t.data[i] > s THEN t.data[i] ELSE s]]

\* tf.clip_by_value(t, clip_value_min, clip_value_max) = max(lo, min(v, hi)).
clip_by_value(t, clip_value_min, clip_value_max) ==
    maximum(minimum(t, clip_value_max), clip_value_min)

\* t + s with a scalar s (x+0.5, ... - 1, ... + 1).
add_scalar(t, s) ==
    [shape |-> t.shape, data |-> [i \in DOMAIN t.data |-> t.data[i] + s]]

\* t * a with a scalar a; both in tenths, so the product is divided by One.
mul_scalar(t, a) ==
    [shape |-> t.shape, data |-> [i \in DOMAIN t.data |-> (t.data[i] * a) \div One]]

\* t + u for two tensors of the same shape.
add(t, u) ==
    [shape |-> t.shape, data |-> [i \in DOMAIN t.data |-> t.data[i] + u.data[i]]]

\* --------------------------------------------------------- activations
\* Faulty variant: the bounds passed in are ignored, the defaults used.
hard_tanh_default_bounds(x, lower_b, upper_b) == clip_by_value(x, -One, One)

\* Faulty variant: the input is shifted by 0.5 as in hard_sigmoid.
hard_tanh_shifted(x, lower_b, upper_b) ==
    clip_by_value(add_scalar(x, Half), lower_b, upper_b)

\* Faulty variant: a hand-written clamp, min(hi, max(v, lo)).
hard_tanh_min_of_max(x, lower_b, upper_b) == minimum(maximum(x, lower_b), upper_b)

hard_tanh(x, lower_b, upper_b) == clip_by_value(x, lower_b, upper_b)

\* Faulty variant: the shift by 0.5 is left out.
hard_sigmoid_no_shift(x) == clip_by_value(x, 0, One)

hard_sigmoid(x) == clip_by_value(add_scalar(x, Half), 0, One)

\* The three summands of leaky_tanh, in the order Python evaluates them.
leaky_tanh_clip(x) == clip_by_value(x, -One, One)

\* Faulty variant: the upper leak starts at 0 instead of 1.
leaky_tanh_upper_from_zero(x, alpha) ==
    mul_scalar(add_scalar(maximum(x, 0), -One), alpha)

leaky_tanh_upper(x, alpha) == mul_scalar(add_scalar(maximum(x, One), -One), alpha)

leaky_tanh_lower(x, alpha) == mul_scalar(add_scalar(minimum(x, -One), One), alpha)

\* Faulty variant: the leak terms are not multiplied by alpha.
leaky_tanh_no_alpha(x, alpha) ==
    add(add(leaky_tanh_clip(x), add_scalar(maximum(x, One), -One)),
        add_scalar(minimum(x, -One), One))

\* Faulty variant: the upper leak is taken from the largest element of x
\* (a reduce_max in place of the element-wise maximum).
leaky_tanh_reduce_max(x, alpha) ==
    LET top == IF x.data = <<>> THEN One
               ELSE CHOOSE v \in {x.data[i] : i \in DOMAIN x.data} :
                        \A i \in DOMAIN x.data : x.data[i] <= v
    IN  add(add(leaky_tanh_clip(x),
                mul_scalar(add_scalar(maximum(maximum(x, top), One), -One), alpha)),
            leaky_tanh_lower(x, alpha))

leaky_tanh(x, alpha) ==
    add(add(leaky_tanh_clip(x), leaky_tanh_upper(x, alpha)), leaky_tanh_lower(x, alpha))

\* -------------------------------------------------------------- layers
\* HardTanh.__init__: the two attributes, and the (empty) weight list that
\* the base Layer constructor creates.
HardTanh_init(lower_b, upper_b) ==
    [lower_b |-> lower_b, upper_b |-> upper_b, trainable_weights |-> <<>>]

\* HardSigmoid.__init__: only the base Layer constructor.
HardSigmoid_init == [trainable_weights |-> <<>>]

\* The entries of the base Layer's get_config the wrappers merge theirs into.
Layer_get_config(name) == [name |-> name, trainable |-> TRUE]

\* Faulty variant: call forwards the default bounds, not the stored ones.
HardTanh_call_defaults(self, inputs) == hard_tanh(inputs, -One, One)

HardTanh_call(self, inputs) == hard_tanh(inputs, self.lower_b, self.upper_b)

\* {**super().get_config(), "lower_b": ..., "upper_b": ...}: later keys win.
HardTanh_get_config(self) ==
    [lower_b |-> self.lower_b, upper_b |-> self.upper_b] @@ Layer_get_config("hard_tanh")

\* Faulty variant: the two bounds are reported as weights.
HardTanh_non_trainable_weights_bounds(self) == <<self.lower_b, self.upper_b>>

HardTanh_non_trainable_weights(self) == <<>>

HardTanh_compute_output_shape(self, input_shape) == input_shape

HardSigmoid_call(self, inputs) == hard_sigmoid(inputs)

HardSigmoid_get_config(self) == Layer_get_config("hard_sigmoid")

HardSigmoid_non_trainable_weights(self) == <<>>

HardSigmoid_compute_output_shape(self, input_shape) == input_shape

\* Layer.trainable_weights as the wrappers inherit it: the list the base
\* constructor created, to which no method of the wrappers adds.
Layer_trainable_weights(self) == self.trainable_weights

\* ----------------------------------------------------------------- state
VARIABLES
    x,      \* the input tensor the caller holds
    x0,     \* the values the caller put into it
    fn,     \* the operation last called ("none" before the first call)
    args,   \* the parameters of that call
    ret,    \* what it returned
    ht,     \* the HardTanh instance
    hs,     \* the HardSigmoid instance
    ctor,   \* the arguments HardTanh was constructed with
    calls   \* the calls in progress, by caller (concurrent callers)

vars == <<x, x0, fn, args, ret, ht, hs, ctor, calls>>

Functions == {"hard_tanh", "hard_sigmoid", "leaky_tanh"}

CallIds == {"c1", "c2"}

DefaultArgs ==
    [lower_b |-> -One, upper_b |-> One, alpha |-> DefaultAlpha, input_shape |-> <<>>]

NoTensor == [shape |-> <<0>>, data |-> <<>>]

Idle == [pc |-> "idle", fn |-> "none", tmp |-> NoTensor, ret |-> NoTensor]

\* The function named f applied to t with the parameters a.
Apply(f, t, a) ==
    CASE f = "hard_tanh"    -> hard_tanh(t, a.lower_b, a.upper_b)
      [] f = "hard_sigmoid" -> hard_sigmoid(t)
      [] f = "leaky_tanh"   -> leaky_tanh(t, a.alpha)

InitCommon ==
    /\ x \in Tensors
    /\ x0 = x
    /\ fn = "none"
    /\ args = DefaultArgs
    /\ ret = NoTensor
    /\ hs = HardSigmoid_init
    /\ calls = [c \in CallIds |-> Idle]

\* The functions called directly; the layers built with their defaults.
Init ==
    /\ InitCommon
    /\ ctor = [lower_b |-> -One, upper_b |-> One]
    /\ ht = HardTanh_init(ctor.lower_b, ctor.upper_b)

\* A HardTanh built with any pair of bounds, ordered or not.
InitLayer ==
    /\ InitCommon
    /\ ctor \in [lower_b : BVals, upper_b : BVals]
    /\ ht = HardTanh_init(ctor.lower_b, ctor.upper_b)

\* ------------------------------------------------- direct function calls
Call_hard_tanh ==
    \E lb \in BVals, ub \in BVals :
        /\ fn' = "hard_tanh"
        /\ args' = [DefaultArgs EXCEPT !.lower_b = lb, !.upper_b = ub]
        /\ ret' = hard_tanh(x, lb, ub)
        /\ UNCHANGED <<x, x0, ht, hs, ctor, calls>>

Call_hard_sigmoid ==
    /\ fn' = "hard_sigmoid"
    /\ args' = DefaultArgs
    /\ ret' = hard_sigmoid(x)
    /\ UNCHANGED <<x, x0, ht, hs, ctor, calls>>

Call_leaky_tanh ==
    \E a \in AVals :
        /\ fn' = "leaky_tanh"
        /\ args' = [DefaultArgs EXCEPT !.alpha = a]
        /\ ret' = leaky_tanh(x, a)
        /\ UNCHANGED <<x, x0, ht, hs, ctor, calls>>

\* hard_tanh(hard_tanh(x)): the output of a default call is passed back in.
Call_hard_tanh_on_output ==
    /\ fn = "hard_tanh"
    /\ args = DefaultArgs
    /\ x' = ret
    /\ x0' = ret
    /\ fn' = "hard_tanh_twice"
    /\ args' = DefaultArgs
    /\ ret' = hard_tanh(ret, -One, One)
    /\ UNCHANGED <<ht, hs, ctor, calls>>

\* The caller repeats its last call on a tensor that differs at one index.
Call_with_changed_element ==
    /\ fn \in Functions
    /\ \E j \in DOMAIN x.data, v \in XVals :
        /\ v # x.data[j]
        /\ x' = [x EXCEPT !.data[j] = v]
        /\ x0' = x'
        /\ ret' = Apply(fn, x', args)
    /\ UNCHANGED <<fn, args, ht, hs, ctor, calls>>

NextFn ==
    \/ Call_hard_tanh
    \/ Call_hard_sigmoid
    \/ Call_leaky_tanh
    \/ Call_hard_tanh_on_output
    \/ Call_with_changed_element

\* ------------------------------------------------------ layer operations
Do_HardTanh_call ==
    /\ fn' = "HardTanh.call"
    /\ args' = DefaultArgs
    /\ ret' = HardTanh_call(ht, x)
    /\ UNCHANGED <<x, x0, ht, hs, ctor, calls>>

Do_HardTanh_get_config ==
    /\ fn' = "HardTanh.get_config"
    /\ args' = DefaultArgs
    /\ ret' = HardTanh_get_config(ht)
    /\ UNCHANGED <<x, x0, ht, hs, ctor, calls>>

Do_HardTanh_non_trainable_weights ==
    /\ fn' = "HardTanh.non_trainable_weights"
    /\ args' = DefaultArgs
    /\ ret' = HardTanh_non_trainable_weights(ht)
    /\ UNCHANGED <<x, x0, ht, hs, ctor, calls>>

Do_HardTanh_trainable_weights ==
    /\ fn' = "HardTanh.trainable_weights"
    /\ args' = DefaultArgs
    /\ ret' = Layer_trainable_weights(ht)
    /\ UNCHANGED <<x, x0, ht, hs, ctor, calls>>

Do_HardTanh_compute_output_shape ==
    /\ fn' = "HardTanh.compute_output_shape"
    /\ args' = [DefaultArgs EXCEPT !.input_shape = x.shape]
    /\ ret' = HardTanh_compute_output_shape(ht, x.shape)
    /\ UNCHANGED <<x, x0, ht, hs, ctor, calls>>

Do_HardSigmoid_call ==
    /\ fn' = "HardSigmoid.call"
    /\ args' = DefaultArgs
    /\ ret' = HardSigmoid_call(hs, x)
    /\ UNCHANGED <<x, x0, ht, hs, ctor, calls>>

Do_HardSigmoid_get_config ==
    /\ fn' = "HardSigmoid.get_config"
    /\ args' = DefaultArgs
    /\ ret' = HardSigmoid_get_config(hs)
    /\ UNCHANGED <<x, x0, ht, hs, ctor, calls>>

Do_HardSigmoid_non_trainable_weights ==
    /\ fn' = "HardSigmoid.non_trainable_weights"
    /\ args' = DefaultArgs
    /\ ret' = HardSigmoid_non_trainable_weights(hs)
    /\ UNCHANGED <<x, x0, ht, hs, ctor, calls>>

Do_HardSigmoid_trainable_weights ==
    /\ fn' = "HardSigmoid.trainable_weights"
    /\ args' = DefaultArgs
    /\ ret' = Layer_trainable_weights(hs)
    /\ UNCHANGED <<x, x0, ht, hs, ctor, calls>>

Do_HardSigmoid_compute_output_shape ==
    /\ fn' = "HardSigmoid.compute_output_shape"
    /\ args' = [DefaultArgs EXCEPT !.input_shape = x.shape]
    /\ ret' = HardSigmoid_compute_output_shape(hs, x.shape)
    /\ UNCHANGED <<x, x0, ht, hs, ctor, calls>>

NextLayer ==
    \/ Do_HardTanh_call
    \/ Do_HardTanh_get_config
    \/ Do_HardTanh_non_trainable_weights
    \/ Do_HardTanh_trainable_weights
    \/ Do_HardTanh_compute_output_shape
    \/ Do_HardSigmoid_call
    \/ Do_HardSigmoid_get_config
    \/ Do_HardSigmoid_non_trainable_weights
    \/ Do_HardSigmoid_trainable_weights
    \/ Do_HardSigmoid_compute_output_shape

\* --------------------------------------------------- concurrent callers
\* Each caller runs one call at a time on the shared tensor x, with the
\* default parameters; a call's reads of x interleave with the other
\* caller's steps.
Invoke(c) ==
    /\ calls[c].pc = "idle"
    /\ \E f \in Functions :
        calls' = [calls EXCEPT ![c] = [Idle EXCEPT !.pc = f, !.fn = f]]
    /\ UNCHANGED <<x, x0, fn, args, ret, ht, hs, ctor>>

\* hard_tanh: return tf.clip_by_value(x, lower_b, upper_b)
Step_hard_tanh(c) ==
    /\ calls[c].pc = "hard_tanh"
    /\ calls' = [calls EXCEPT ![c].pc = "done",
                              ![c].ret = clip_by_value(x, -One, One)]
    /\ UNCHANGED <<x, x0, fn, args, ret, ht, hs, ctor>>

\* Faulty variant: x += 0.5 in place, on the caller's tensor.
Step_hard_sigmoid_add_in_place(c) ==
    /\ calls[c].pc = "hard_sigmoid"
    /\ x' = add_scalar(x, Half)
    /\ calls' = [calls EXCEPT ![c].pc = "hard_sigmoid_clip", ![c].tmp = x']
    /\ UNCHANGED <<x0, fn, args, ret, ht, hs, ctor>>

\* hard_sigmoid: x+0.5 makes a new tensor
Step_hard_sigmoid_add(c) ==
    /\ calls[c].pc = "hard_sigmoid"
    /\ calls' = [calls EXCEPT ![c].pc = "hard_sigmoid_clip",
                              ![c].tmp = add_scalar(x, Half)]
    /\ UNCHANGED <<x, x0, fn, args, ret, ht, hs, ctor>>

\* hard_sigmoid: return tf.clip_by_value(<x+0.5>, 0.0, 1.0)
Step_hard_sigmoid_clip(c) ==
    /\ calls[c].pc = "hard_sigmoid_clip"
    /\ calls' = [calls EXCEPT ![c].pc = "done",
                              ![c].tmp = NoTensor,
                              ![c].ret = clip_by_value(calls[c].tmp, 0, One)]
    /\ UNCHANGED <<x, x0, fn, args, ret, ht, hs, ctor>>

\* leaky_tanh: tf.clip_by_value(x, -1, 1)
Step_leaky_tanh_clip(c) ==
    /\ calls[c].pc = "leaky_tanh"
    /\ calls' = [calls EXCEPT ![c].pc = "leaky_tanh_upper",
                              ![c].tmp = leaky_tanh_clip(x)]
    /\ UNCHANGED <<x, x0, fn, args, ret, ht, hs, ctor>>

\* leaky_tanh: ... + (tf.math.maximum(x, 1) - 1) * alpha
Step_leaky_tanh_upper(c) ==
    /\ calls[c].pc = "leaky_tanh_upper"
    /\ calls' = [calls EXCEPT ![c].pc = "leaky_tanh_lower",
                              ![c].tmp = add(calls[c].tmp, leaky_tanh_upper(x, DefaultAlpha))]
    /\ UNCHANGED <<x, x0, fn, args, ret, ht, hs, ctor>>

\* leaky_tanh: return ... + (tf.math.minimum(x, -1) + 1) * alpha
Step_leaky_tanh_lower(c) ==
    /\ calls[c].pc = "leaky_tanh_lower"
    /\ calls' = [calls EXCEPT ![c].pc = "done",
                              ![c].tmp = NoTensor,
                              ![c].ret = add(calls[c].tmp, leaky_tanh_lower(x, DefaultAlpha))]
    /\ UNCHANGED <<x, x0, fn, args, ret, ht, hs, ctor>>

\* The caller takes the result; nothing of the call is kept.
Return(c) ==
    /\ calls[c].pc = "done"
    /\ calls' = [calls EXCEPT ![c] = Idle]
    /\ UNCHANGED <<x, x0, fn, args, ret, ht, hs, ctor>>

NextConc ==
    \E c \in CallIds :
        \/ Invoke(c)
        \/ Step_hard_tanh(c)
        \/ Step_hard_sigmoid_add(c)
        \/ Step_hard_sigmoid_clip(c)
        \/ Step_leaky_tanh_clip(c)
        \/ Step_leaky_tanh_upper(c)
        \/ Step_leaky_tanh_lower(c)
        \/ Return(c)

Next == NextFn \/ NextLayer

Spec == Init /\ [][Next]_vars

SpecLayer == InitLayer /\ [][NextLayer]_vars

SpecConc == Init /\ [][NextConc]_vars

\* ------------------------------------------------------------ properties
\* v * a for two numbers in tenths.
Times(v, a) == (v * a) \div One

\* C1: with lower_b <= upper_b, hard_tanh returns each x clamped into
\* [lower_b, upper_b]: lower_b below the range, x inside it, upper_b above
\* it; the result always lies in the range ([-1, 1] with the defaults).
C1_HardTanhClamps ==
    (fn = "hard_tanh" /\ args.lower_b <= args.upper_b) =>
        /\ DOMAIN ret.data = DOMAIN x.data
        /\ \A i \in DOMAIN x.data :
            LET v == x.data[i]
                r == ret.data[i]
            IN  /\ v < args.lower_b => r = args.lower_b
                /\ (args.lower_b <= v /\ v <= args.upper_b) => r = v
                /\ v > args.upper_b => r = args.upper_b
                /\ args.lower_b <= r /\ r <= args.upper_b

C1_Witness ==
    /\ fn = "hard_tanh"
    /\ args = DefaultArgs
    /\ x.data = <<-(One + Half), Half>>
    /\ ret.data = <<-One, Half>>

\* C2: hard_sigmoid(x) = clamp(x + 0.5, 0, 1): in [0, 1]; 0 for x <= -0.5,
\* 1 for x >= 0.5, x + 0.5 in between; hard_sigmoid(-0.5) = 0,
\* hard_sigmoid(0) = 0.5, hard_sigmoid(0.5) = 1.
C2_HardSigmoidClamps ==
    fn = "hard_sigmoid" =>
        /\ DOMAIN ret.data = DOMAIN x.data
        /\ \A i \in DOMAIN x.data :
            LET v == x.data[i]
                r == ret.data[i]
            IN  /\ 0 <= r /\ r <= One
                /\ v <= -Half => r = 0
                /\ v >= Half => r = One
                /\ (-Half < v /\ v < Half) => r = v + Half
                /\ v = -Half => r = 0
                /\ v = 0 => r = Half
                /\ v = Half => r = One

C2_Witness ==
    /\ fn = "hard_sigmoid"
    /\ x.data = <<0, -Half>>
    /\ ret.data = <<Half, 0>>

\* C3: for -1 <= x <= 1 (end points included) and every alpha,
\* leaky_tanh(x, alpha) = x: both leak terms are zero there, so the result
\* is hard_tanh(x, -1, 1).
C3_LeakyTanhInside ==
    fn = "leaky_tanh" =>
        /\ DOMAIN ret.data = DOMAIN x.data
        /\ \A i \in DOMAIN x.data :
            (-One <= x.data[i] /\ x.data[i] <= One) =>
                /\ ret.data[i] = x.data[i]
                /\ leaky_tanh_upper(x, args.alpha).data[i] = 0
                /\ leaky_tanh_lower(x, args.alpha).data[i] = 0
                /\ ret.data[i] = hard_tanh(x, -One, One).data[i]

C3_Witness ==
    /\ fn = "leaky_tanh"
    /\ args.alpha = -DefaultAlpha
    /\ x.data = <<One, -One>>
    /\ ret.data = <<One, -One>>

\* The number of leak terms of element i that are not zero.
NonZeroLeaks(i) ==
    (IF leaky_tanh_upper(x, args.alpha).data[i] # 0 THEN 1 ELSE 0)
  + (IF leaky_tanh_lower(x, args.alpha).data[i] # 0 THEN 1 ELSE 0)

\* The two equations of C4 and the values at the two knees.
LeakyTanhOutside(i) ==
    LET v == x.data[i]
        r == ret.data[i]
    IN  /\ v > One => r = One + Times(args.alpha, v - One)
        /\ v < -One => r = -One + Times(args.alpha, v + One)
        /\ v = One => r = One
        /\ v = -One => r = -One

\* C4 as stated: for every alpha, leaky_tanh(x, alpha) = 1 + alpha*(x - 1)
\* for x > 1 and -1 + alpha*(x + 1) for x < -1; outside [-1, 1] exactly one
\* leak term is non-zero; no jump at x = 1 and x = -1.
C4_AsStated ==
    fn = "leaky_tanh" =>
        \A i \in DOMAIN x.data :
            /\ LeakyTanhOutside(i)
            /\ (x.data[i] > One \/ x.data[i] < -One) => NonZeroLeaks(i) = 1

\* C4 as amended: the same two equations and knee values for every alpha;
\* outside [-1, 1] at most one leak term is non-zero, and exactly one when
\* alpha is not zero.
C4_LeakyTanhOutside ==
    fn = "leaky_tanh" =>
        /\ DOMAIN ret.data = DOMAIN x.data
        /\ \A i \in DOMAIN x.data :
            /\ LeakyTanhOutside(i)
            /\ (x.data[i] > One \/ x.data[i] < -One) =>
                /\ NonZeroLeaks(i) <= 1
                /\ args.alpha # 0 => NonZeroLeaks(i) = 1
                /\ args.alpha = 0 => NonZeroLeaks(i) = 0

C4_Witness ==
    /\ fn = "leaky_tanh"
    /\ args.alpha = DefaultAlpha
    /\ x.data = <<One + Half, -(One + Half)>>
    /\ ret.data = <<One + 1, -(One + 1)>>

\* C5: hard_tanh(hard_tanh(x)) = hard_tanh(x), both calls with the default
\* bounds.  In a "hard_tanh_twice" state x holds the first call's output.
C5_HardTanhIdempotent ==
    fn = "hard_tanh_twice" => ret = x

C5_Witness ==
    /\ fn = "hard_tanh_twice"
    /\ x.data = <<One, -One>>
    /\ ret.data = <<One, -One>>

\* C6: each function returns a tensor of the shape of its input, and the
\* output at index i depends only on the input at index i and the call's
\* parameters: a call repeated on a tensor changed at other indexes returns
\* the same value at i.  compute_output_shape of both layers returns its
\* argument.
C6_ElementWise ==
    [][ /\ fn' \in Functions =>
            /\ ret'.shape = x'.shape
            /\ DOMAIN ret'.data = DOMAIN x'.data
        /\ fn' \in {"HardTanh.compute_output_shape",
                    "HardSigmoid.compute_output_shape"} =>
            ret' = args'.input_shape
        /\ (fn \in Functions /\ fn' = fn /\ args' = args /\ x'.shape = x.shape) =>
            \A i \in DOMAIN x.data :
                x'.data[i] = x.data[i] => ret'.data[i] = ret.data[i]
      ]_vars

C6_Witness ==
    /\ fn = "leaky_tanh"
    /\ x.shape = <<1, 2>>
    /\ x.data = <<One + Half, -Half>>
    /\ ret.shape = <<1, 2>>
    /\ ret.data = <<One + 1, -Half>>

\* C7: in every interleaving of concurrent calls on one shared tensor, a
\* finished call holds the result of the same call run alone, the tensor
\* holds the values the caller put in, and an idle caller holds nothing of
\* an earlier call.
C7_StatelessCalls ==
    /\ x = x0
    /\ \A c \in CallIds :
        /\ calls[c].pc = "done" => calls[c].ret = Apply(calls[c].fn, x0, DefaultArgs)
        /\ calls[c].pc = "idle" => calls[c] = Idle

C7_Witness ==
    /\ calls["c1"].pc = "done"
    /\ calls["c1"].fn = "leaky_tanh"
    /\ calls["c2"].pc = "hard_sigmoid_clip"
    /\ x.data = <<One + Half, -Half>>
    /\ calls["c1"].ret.data = <<One + 1, -Half>>

\* C8: a HardTanh keeps the bounds it was constructed with: after any
\* sequence of operations the stored bounds are the constructor's, get_config
\* reports them, call returns hard_tanh(inputs, lower_b, upper_b) with them,
\* and HardSigmoid.call returns hard_sigmoid(inputs).
C8_ParametersKept ==
    /\ ht.lower_b = ctor.lower_b
    /\ ht.upper_b = ctor.upper_b
    /\ fn = "HardTanh.get_config" =>
        /\ ret.lower_b = ctor.lower_b
        /\ ret.upper_b = ctor.upper_b
    /\ fn = "HardTanh.call" => ret = hard_tanh(x, ctor.lower_b, ctor.upper_b)
    /\ fn = "HardSigmoid.call" => ret = hard_sigmoid(x)

C8_Witness ==
    /\ fn = "HardTanh.call"
    /\ ctor = [lower_b |-> -Half, upper_b |-> Half]
    /\ x.data = <<One, 0>>
    /\ ret.data = <<Half, 0>>

\* C9: both layers declare no trainable and no non-trainable weights:
\* whenever either list is asked for, it is empty.
C9_NoWeights ==
    fn \in {"HardTanh.non_trainable_weights", "HardTanh.trainable_weights",
            "HardSigmoid.non_trainable_weights", "HardSigmoid.trainable_weights"}
        => ret = <<>>

C9_Witness ==
    /\ fn = "HardTanh.non_trainable_weights"
    /\ ctor = [lower_b |-> -Half, upper_b |-> Half]
    /\ ret = <<>>

\* C10: a HardTanh built with lower_b > upper_b is accepted, and its call
\* returns lower_b at every element whatever x is; the result is not in
\* [lower_b, upper_b].
C10_InvertedRange ==
    (fn = "HardTanh.call" /\ ctor.lower_b > ctor.upper_b) =>
        /\ DOMAIN ret.data = DOMAIN x.data
        /\ \A i \in DOMAIN x.data :
            /\ ret.data[i] = ctor.lower_b
            /\ ~(ctor.lower_b <= ret.data[i] /\ ret.data[i] <= ctor.upper_b)

C10_Witness ==
    /\ fn = "HardTanh.call"
    /\ ctor = [lower_b |-> Half, upper_b |-> -Half]
    /\ x.data = <<-One, One>>
    /\ ret.data = <<Half, Half>>
====
